---- MODULE Spec2Model ----
(***************************************************************************)
(* Model of package storage (pkg/storage/storage.go) over the schema of    *)
(* db_init/init.sql: the tables users, labels, tasks and tasks_labels, the *)
(* serial sequence of tasks.id, and one action per Storage method.         *)
(*                                                                         *)
(* A table is the sequence of its rows in heap order: the order a SELECT   *)
(* without ORDER BY returns them in.  An UPDATE writes a new row version,   *)
(* which lands behind the rows already there.                              *)
(*                                                                         *)
(* The single-statement methods run against a reachable store: the only    *)
(* errors they meet are the ones the engine derives from the data (a       *)
(* foreign key violation).  NewTasks, the one multi-statement method, is   *)
(* modelled step by step (Begin, SendBatch + Close, Commit) with a fault   *)
(* possible at each step, and other callers run between its steps.         *)
(***************************************************************************)
EXTENDS Integers, Sequences, FiniteSets, TLC

VARIABLES
    users,          \* table users: set of ids (names play no part in any query)
    labels,         \* table labels: sequence of rows [id, name]
    tasks,          \* table tasks: sequence of committed rows, heap order
    tasks_labels,   \* table tasks_labels: sequence of rows [task_id, label_id]
    tasks_id_seq,   \* next value of the serial sequence behind tasks.id
    tx,             \* per caller: the NewTasks transaction in flight
    last            \* the call that returned last: [op, args, ret, err]

vars == <<users, labels, tasks, tasks_labels, tasks_id_seq, tx, last>>

----------------------------------------------------------------------------
(* Bounds *)

\* longest slice handed to NewTasks
MaxBatch == 2
\* the serial sequence stops handing out ids beyond this one
MaxId == 7

----------------------------------------------------------------------------
(* Errors: storage.go:11-15, plus what the engine reports *)

Nil == "nil"
ErrNoTasksToAdd == "empty tasks slice"
ErrTaskNotFound == "task not found"
ErrEmptyLabel == "label cannot be empty"
\* SQLSTATE 23503, a REFERENCES constraint of init.sql refused the statement
ErrForeignKey == "foreign key violation"
\* any failure of the connection or the engine during a statement
ErrStore == "store error"

----------------------------------------------------------------------------
(* Task: storage.go:43-51 *)

ZeroTask ==
    [ID |-> 0, Opened |-> 0, Closed |-> 0, AuthorID |-> 0, AssignedID |-> 0,
     Title |-> "", Content |-> ""]

\* rows.Scan(&t.ID, &t.Opened, ...): one row of the SELECT list into a Task
Scan(row) ==
    [ID |-> row.id, Opened |-> row.opened, Closed |-> row.closed,
     AuthorID |-> row.author_id, AssignedID |-> row.assigned_id,
     Title |-> row.title, Content |-> row.content]

\* for rows.Next() { ...; tasks = append(tasks, t) }
ScanRows(rows) == [i \in 1..Len(rows) |-> Scan(rows[i])]

----------------------------------------------------------------------------
(* The seeded store: init.sql:37-72 *)

SeedUsers == {0, 1, 2, 3, 4, 5}

SeedLabels ==
    << [id |-> 1, name |-> "Bug"], [id |-> 2, name |-> "Feature"],
       [id |-> 3, name |-> "Task"], [id |-> 4, name |-> "Enhancement"],
       [id |-> 5, name |-> "Documentation"] >>

SeedRow(id, author, assigned, title, content) ==
    [id |-> id, opened |-> 100, closed |-> 0, author_id |-> author,
     assigned_id |-> assigned, title |-> title, content |-> content]

SeedTasks ==
    << SeedRow(1, 1, 2, "Fix login issue",
               "The login feature is not working as expected."),
       SeedRow(2, 3, 1, "Implement new feature",
               "Implement a new feature to improve user experience."),
       SeedRow(3, 4, 5, "Write documentation",
               "Write documentation for the new feature."),
       SeedRow(4, 2, 3, "Refactor code",
               "Refactor the code to improve performance."),
       SeedRow(5, 5, 1, "Test new feature",
               "Test the new feature to ensure it works as expected.") >>

TL(t, l) == [task_id |-> t, label_id |-> l]

SeedTasksLabels ==
    << TL(1, 1), TL(2, 2), TL(3, 4), TL(4, 3), TL(5, 2), TL(1, 3), TL(2, 5) >>

(* A store in use: tasks 1-3 are gone, task 4 was updated after task 5 was *)
(* created (so it lies behind it in the heap), and label Feature is on no  *)
(* task.                                                                   *)
UsedUsers == {0, 1, 2}

UsedLabels == << [id |-> 1, name |-> "Bug"], [id |-> 2, name |-> "Feature"] >>

UsedTasks ==
    << [id |-> 5, opened |-> 150, closed |-> 0, author_id |-> 0,
        assigned_id |-> 0, title |-> "Task 1", content |-> ""],
       [id |-> 4, opened |-> 100, closed |-> 300, author_id |-> 2,
        assigned_id |-> 1, title |-> "Refactor code",
        content |-> "Refactor the code to improve performance."] >>

UsedTasksLabels == << TL(4, 1) >>

----------------------------------------------------------------------------
(* Inputs of the calls *)

\* concurrent callers of NewTasks
Callers == {1, 2}
\* task identifiers asked for: absent, present, the next one created
IdInputs == {-1, 0, 4, 5, 6}
\* filters of Tasks: 0 is no filter
FilterIdInputs == {0, 5, 6}
AuthorInputs == {0, 2, 4}
\* UpdateTask parameters: negative, zero, set; 9 is not a user
UpdateIdInputs == {5}
AssignedInputs == {-1, 0, 2, 9}
ClosedInputs == {-1, 0, 300}
TitleInputs == {"", "New Title"}
ContentInputs == {"", "New Text"}
LabelInputs == {"", "Bug", "Feature", "chore"}
\* what now() reads when a row is inserted
Clock == {200}
\* Task values handed to NewTask: only Title and Content are read
TaskInputs ==
    { [ZeroTask EXCEPT !.Title = "New Test Task", !.Content = "Some content"],
      [ID |-> 4, Opened |-> 7, Closed |-> 8, AuthorID |-> 2, AssignedID |-> 1,
       Title |-> "New Test Task", Content |-> "Some content"] }

\* the slices handed to NewTasks: the first n of task1, task2, ... of
\* TestStorage_NewTasks, n = 0 included
BatchTask(i) ==
    [ZeroTask EXCEPT !.Title = <<"Task 1", "Task 2", "Task 3", "Task 4">>[i],
                     !.Content = "This is the content"]

BatchInputs == {[i \in 1..n |-> BatchTask(i)] : n \in 0..MaxBatch}

----------------------------------------------------------------------------
(* Queries *)

\* ORDER BY id (storage.go:68): insertion sort on the id column
RECURSIVE InsertById(_, _)
InsertById(row, sorted) ==
    IF sorted = <<>> THEN <<row>>
    ELSE IF row.id <= Head(sorted).id THEN <<row>> \o sorted
    ELSE <<Head(sorted)>> \o InsertById(row, Tail(sorted))

RECURSIVE OrderById(_)
OrderById(rows) ==
    IF rows = <<>> THEN <<>>
    ELSE InsertById(Head(rows), OrderById(Tail(rows)))

\* WHERE ($1 = 0 OR id = $1) AND ($2 = 0 OR author_id = $2)   storage.go:65-67
TasksWhere(row, taskID, authorID) ==
    /\ (taskID = 0 \/ row.id = taskID)
    /\ (authorID = 0 \/ row.author_id = authorID)

\* storage.go:55-72
TasksFrom(heap, taskID, authorID) ==
    OrderById(SelectSeq(heap, LAMBDA r : TasksWhere(r, taskID, authorID)))

\* mutant: the ORDER BY clause left out
TasksQuery_NoOrderBy(taskID, authorID) ==
    SelectSeq(tasks, LAMBDA r : TasksWhere(r, taskID, authorID))

TasksQuery(taskID, authorID) == TasksFrom(tasks, taskID, authorID)

\* mutant: the SELECT also returns the rows of transactions still open
TasksAllQuery_Dirty == tasks \o tx[1].rows \o tx[2].rows

\* storage.go:104-114
TasksAllQuery == tasks

\* mutant: WHERE id >= $1
TaskByIDQuery_AtLeast(taskID) == SelectSeq(tasks, LAMBDA r : r.id >= taskID)

\* SELECT ... FROM tasks WHERE id = $1   storage.go:144-156
TaskByIDQuery(taskID) == SelectSeq(tasks, LAMBDA r : r.id = taskID)

\* mutant: pgx.ErrNoRows returned as it comes
TaskByIDResult_Untranslated(taskID) ==
    LET rows == TaskByIDQuery(taskID)
    IN  IF rows = <<>>
        THEN [ret |-> ZeroTask, err |-> "no rows in result set"]
        ELSE [ret |-> Scan(rows[1]), err |-> Nil]

\* QueryRow(...).Scan(...) and the translation of pgx.ErrNoRows, storage.go:143-171
TaskByIDResult(taskID) ==
    LET rows == TaskByIDQuery(taskID)
    IN  IF rows = <<>>
        THEN [ret |-> ZeroTask, err |-> ErrTaskNotFound]
        ELSE [ret |-> Scan(rows[1]), err |-> Nil]

\* SELECT ... FROM tasks WHERE author_id = $1   storage.go:177-190
TasksByAuthorIDQuery(authorID) ==
    SelectSeq(tasks, LAMBDA r : r.author_id = authorID)

\* ON tl.task_id = t.id ... ON tl.label_id = l.id WHERE l.name = $1
JoinOn(t, tl, l, label) ==
    /\ tl.task_id = t.id
    /\ tl.label_id = l.id
    /\ l.name = label

RECURSIVE Repeat(_, _)
Repeat(x, n) == IF n = 0 THEN <<>> ELSE <<x>> \o Repeat(x, n - 1)

RECURSIVE JoinFrom(_, _)
JoinFrom(rows, label) ==
    IF rows = <<>> THEN <<>>
    ELSE LET t == Head(rows)
             hits == {<<i, j>> \in (1..Len(tasks_labels)) \X (1..Len(labels)) :
                         JoinOn(t, tasks_labels[i], labels[j], label)}
         IN  Repeat(t, Cardinality(hits)) \o JoinFrom(Tail(rows), label)

\* tasks JOIN tasks_labels JOIN labels: one result row per matching
\* (task, link, label) triple   storage.go:223-239
TasksByLabelQuery(label) == JoinFrom(tasks, label)

\* mutant: the label is not validated
TasksByLabelResult_Unchecked(label) ==
    [ret |-> ScanRows(TasksByLabelQuery(label)), err |-> Nil]

\* storage.go:217-263
TasksByLabelResult(label) ==
    IF label = ""
    THEN [ret |-> <<>>, err |-> ErrEmptyLabel]
    ELSE [ret |-> ScanRows(TasksByLabelQuery(label)), err |-> Nil]

----------------------------------------------------------------------------
(* Statements that write *)

\* REFERENCES users(id) on author_id and assigned_id   init.sql:25-26
UsersFK(row) == row.author_id \in users /\ row.assigned_id \in users

\* REFERENCES tasks(id) on tasks_labels.task_id, no ON DELETE action: a task
\* that a tasks_labels row points at cannot be deleted   init.sql:32-35
TasksLabelsFK(taskID) ==
    \A i \in 1..Len(tasks_labels) : tasks_labels[i].task_id # taskID

\* mutant: every field of the Task is inserted, not just title and content
InsertRow_AllFields(id, now, t) ==
    [id |-> id, opened |-> now, closed |-> t.Closed, author_id |-> t.AuthorID,
     assigned_id |-> t.AssignedID, title |-> t.Title, content |-> t.Content]

\* INSERT INTO tasks (title, content) VALUES ($1, $2): the other columns take
\* their defaults   storage.go:269-270, 294-295, init.sql:22-26
InsertRow(id, now, t) ==
    [id |-> id, opened |-> now, closed |-> 0, author_id |-> 0,
     assigned_id |-> 0, title |-> t.Title, content |-> t.Content]

\* mutant: title = $4, without the CASE
UpdateSet_TitleAlways(row, assignedID, closed, title, content) ==
    [row EXCEPT
        !.closed = IF closed > 0 THEN closed ELSE row.closed,
        !.assigned_id = IF assignedID > 0 THEN assignedID ELSE row.assigned_id,
        !.title = title,
        !.content = IF content # "" THEN content ELSE row.content]

\* the SET list of the UPDATE   storage.go:319-322
UpdateSet(row, assignedID, closed, title, content) ==
    [row EXCEPT
        !.closed = IF closed > 0 THEN closed ELSE row.closed,
        !.assigned_id = IF assignedID > 0 THEN assignedID ELSE row.assigned_id,
        !.title = IF title # "" THEN title ELSE row.title,
        !.content = IF content # "" THEN content ELSE row.content]

\* mutant: the UPDATE without its WHERE
UpdateHeap_NoWhere(taskID, assignedID, closed, title, content) ==
    [i \in 1..Len(tasks) |->
        UpdateSet(tasks[i], assignedID, closed, title, content)]

\* UPDATE tasks SET ... WHERE id = $1: the heap after the statement, the new
\* row versions behind the rows left alone   storage.go:316-330
UpdateHeap(taskID, assignedID, closed, title, content) ==
    LET hit == SelectSeq(tasks, LAMBDA r : r.id = taskID)
        rest == SelectSeq(tasks, LAMBDA r : r.id # taskID)
    IN  rest \o [i \in 1..Len(hit) |->
                    UpdateSet(hit[i], assignedID, closed, title, content)]

\* mutant: WHERE id <> $1
DeleteHeap_Others(taskID) == SelectSeq(tasks, LAMBDA r : r.id = taskID)

\* DELETE FROM tasks WHERE id = $1   storage.go:341-346
DeleteHeap(taskID) == SelectSeq(tasks, LAMBDA r : r.id # taskID)

\* mutant: the loop queues tasks[1:]
BatchRows_SkipFirst(batch, now, n) ==
    [i \in 1..(n - 1) |-> InsertRow(tasks_id_seq + i - 1, now, batch[i + 1])]

\* the rows a batch of n INSERTs adds inside its transaction, storage.go:292-302
BatchRows(batch, now, n) ==
    [i \in 1..n |-> InsertRow(tasks_id_seq + i - 1, now, batch[i])]

\* tx.Commit: the rows of the transaction become rows of the table, storage.go:308
Commit(rows) == tasks \o rows

\* mutant: the batch goes to the pool, every INSERT commits by itself
Rollback_Autocommit(rows) == tasks \o rows

\* defer tx.Rollback: the rows of the transaction are dropped, storage.go:289
Rollback(rows) == tasks

----------------------------------------------------------------------------
(* State *)

Idle == [pc |-> "idle", batch |-> <<>>, rows |-> <<>>]

Returned(op, args, ret, err) ==
    last' = [op |-> op, args |-> args, ret |-> ret, err |-> err]

Schema == <<users, labels>>
Store == <<users, labels, tasks, tasks_labels, tasks_id_seq>>

InitSeed ==
    /\ users = SeedUsers
    /\ labels = SeedLabels
    /\ tasks = SeedTasks
    /\ tasks_labels = SeedTasksLabels

InitUsed ==
    /\ users = UsedUsers
    /\ labels = UsedLabels
    /\ tasks = UsedTasks
    /\ tasks_labels = UsedTasksLabels

\* storage.New: no call has returned yet   storage.go:31-40
New ==
    /\ tasks_id_seq = 6
    /\ tx = [c \in Callers |-> Idle]
    /\ last = [op |-> "New", args |-> <<>>, ret |-> <<>>, err |-> Nil]

Init == (InitSeed \/ InitUsed) /\ New

----------------------------------------------------------------------------
(* The methods of Storage *)

\* storage.go:54-99
Tasks(taskID, authorID) ==
    /\ Returned("Tasks", <<taskID, authorID>>,
                ScanRows(TasksQuery(taskID, authorID)), Nil)
    /\ UNCHANGED <<Store, tx>>

\* storage.go:102-138
TasksAll ==
    /\ Returned("TasksAll", <<>>, ScanRows(TasksAllQuery), Nil)
    /\ UNCHANGED <<Store, tx>>

\* storage.go:141-172
TaskByID(taskID) ==
    /\ Returned("TaskByID", <<taskID>>,
                TaskByIDResult(taskID).ret, TaskByIDResult(taskID).err)
    /\ UNCHANGED <<Store, tx>>

\* storage.go:175-214
TasksByAuthorID(authorID) ==
    /\ Returned("TasksByAuthorID", <<authorID>>,
                ScanRows(TasksByAuthorIDQuery(authorID)), Nil)
    /\ UNCHANGED <<Store, tx>>

\* storage.go:217-263
TasksByLabel(label) ==
    /\ Returned("TasksByLabel", <<label>>,
                TasksByLabelResult(label).ret, TasksByLabelResult(label).err)
    /\ UNCHANGED <<Store, tx>>

\* storage.go:266-276
NewTask(t, now) ==
    /\ tasks_id_seq <= MaxId
    /\ tasks_id_seq' = tasks_id_seq + 1
    /\ LET row == InsertRow(tasks_id_seq, now, t)
       IN  IF UsersFK(row)
           THEN /\ tasks' = Append(tasks, row)
                /\ Returned("NewTask", <<t>>, row.id, Nil)
           ELSE /\ tasks' = tasks
                /\ Returned("NewTask", <<t>>, 0, ErrForeignKey)
    /\ UNCHANGED <<Schema, tasks_labels, tx>>

\* storage.go:314-336
UpdateTask(taskID, assignedID, closed, title, content) ==
    LET heap == UpdateHeap(taskID, assignedID, closed, title, content)
        args == <<taskID, assignedID, closed, title, content>>
    IN  /\ IF \A i \in 1..Len(heap) : UsersFK(heap[i])
           THEN /\ tasks' = heap
                /\ Returned("UpdateTask", args, <<>>, Nil)
           ELSE /\ tasks' = tasks
                /\ Returned("UpdateTask", args, <<>>, ErrForeignKey)
        /\ UNCHANGED <<Schema, tasks_labels, tasks_id_seq, tx>>

\* storage.go:339-352
DeleteTask(taskID) ==
    LET heap == DeleteHeap(taskID)
        gone == {i \in 1..Len(tasks) : \A j \in 1..Len(heap) : heap[j] # tasks[i]}
    IN  /\ IF \A i \in gone : TasksLabelsFK(tasks[i].id)
           THEN /\ tasks' = heap
                /\ Returned("DeleteTask", <<taskID>>, <<>>, Nil)
           ELSE /\ tasks' = tasks
                /\ Returned("DeleteTask", <<taskID>>, <<>>, ErrForeignKey)
        /\ UNCHANGED <<Schema, tasks_labels, tasks_id_seq, tx>>

\* NewTasks on an empty slice   storage.go:280-282
NewTasksEmpty(c, ts) ==
    /\ tx[c].pc = "idle"
    /\ Len(ts) = 0
    /\ Returned("NewTasks", <<ts>>, <<>>, ErrNoTasksToAdd)
    /\ UNCHANGED <<Store, tx>>

\* s.db.Begin fails   storage.go:285-288
NewTasksBeginFails(c, ts) ==
    /\ tx[c].pc = "idle"
    /\ Len(ts) # 0
    /\ Returned("NewTasks", <<ts>>, <<>>, ErrStore)
    /\ UNCHANGED <<Store, tx>>

\* s.db.Begin, and the batch is queued   storage.go:285-300
NewTasksBegin(c, ts) ==
    /\ tx[c].pc = "idle"
    /\ Len(ts) # 0
    /\ tasks_id_seq + Len(ts) - 1 <= MaxId
    /\ tx' = [tx EXCEPT ![c] = [pc |-> "begun", batch |-> ts, rows |-> <<>>]]
    /\ Returned("Begin", <<ts>>, <<>>, Nil)
    /\ UNCHANGED Store

\* tx.SendBatch and res.Close: every INSERT of the batch ran   storage.go:302-306
NewTasksSendBatch(c, now) ==
    LET n == Len(tx[c].batch)
    IN  /\ tx[c].pc = "begun"
        /\ tasks_id_seq + n - 1 <= MaxId
        /\ tasks_id_seq' = tasks_id_seq + n
        /\ tx' = [tx EXCEPT ![c].pc = "sent",
                            ![c].rows = BatchRows(tx[c].batch, now, n)]
        /\ Returned("SendBatch", <<tx[c].batch>>, <<>>, Nil)
        /\ UNCHANGED <<Schema, tasks, tasks_labels>>

\* the k-th INSERT of the batch fails: res.Close returns the error and the
\* deferred Rollback runs   storage.go:289, 303-306
NewTasksSendBatchFails(c, now, k) ==
    LET n == Len(tx[c].batch)
    IN  /\ tx[c].pc = "begun"
        /\ k \in 1..n
        /\ tasks_id_seq + n - 1 <= MaxId
        /\ tasks_id_seq' = tasks_id_seq + k
        /\ tasks' = Rollback(BatchRows(tx[c].batch, now, k - 1))
        /\ tx' = [tx EXCEPT ![c] = Idle]
        /\ Returned("NewTasks", <<tx[c].batch>>, <<>>, ErrStore)
        /\ UNCHANGED <<Schema, tasks_labels>>

\* tx.Commit   storage.go:308
NewTasksCommit(c) ==
    /\ tx[c].pc = "sent"
    /\ tasks' = Commit(tx[c].rows)
    /\ tx' = [tx EXCEPT ![c] = Idle]
    /\ Returned("NewTasks", <<tx[c].batch>>, <<>>, Nil)
    /\ UNCHANGED <<Schema, tasks_labels, tasks_id_seq>>

\* tx.Commit fails, the deferred Rollback runs   storage.go:289, 308
NewTasksCommitFails(c) ==
    /\ tx[c].pc = "sent"
    /\ tasks' = Rollback(tx[c].rows)
    /\ tx' = [tx EXCEPT ![c] = Idle]
    /\ Returned("NewTasks", <<tx[c].batch>>, <<>>, ErrStore)
    /\ UNCHANGED <<Schema, tasks_labels, tasks_id_seq>>

Reads ==
    \/ \E id \in FilterIdInputs, a \in AuthorInputs : Tasks(id, a)
    \/ TasksAll
    \/ \E id \in IdInputs : TaskByID(id)
    \/ \E a \in AuthorInputs : TasksByAuthorID(a)
    \/ \E l \in LabelInputs : TasksByLabel(l)

\* callers that issue single statements
Next ==
    \/ Reads
    \/ \E t \in TaskInputs, now \in Clock : NewTask(t, now)
    \/ \E id \in UpdateIdInputs, a \in AssignedInputs, cl \in ClosedInputs,
          ti \in TitleInputs, co \in ContentInputs : UpdateTask(id, a, cl, ti, co)
    \/ \E id \in IdInputs : DeleteTask(id)

\* callers of NewTasks next to readers, NewTask and DeleteTask
NextBatch ==
    \/ Reads
    \/ \E t \in TaskInputs, now \in Clock : NewTask(t, now)
    \/ \E id \in IdInputs : DeleteTask(id)
    \/ \E c \in Callers, ts \in BatchInputs : NewTasksEmpty(c, ts)
    \/ \E c \in Callers, ts \in BatchInputs : NewTasksBeginFails(c, ts)
    \/ \E c \in Callers, ts \in BatchInputs : NewTasksBegin(c, ts)
    \/ \E c \in Callers, now \in Clock : NewTasksSendBatch(c, now)
    \/ \E c \in Callers, now \in Clock, k \in 1..MaxBatch :
          NewTasksSendBatchFails(c, now, k)
    \/ \E c \in Callers : NewTasksCommit(c)
    \/ \E c \in Callers : NewTasksCommitFails(c)

Spec == Init /\ [][Next]_vars

\* callers of NewTasks next to readers, other NewTasks calls and NewTask: no
\* caller removes or rewrites a row
NextConcurrent ==
    \/ Reads
    \/ \E t \in TaskInputs, now \in Clock : NewTask(t, now)
    \/ \E c \in Callers, ts \in BatchInputs : NewTasksEmpty(c, ts)
    \/ \E c \in Callers, ts \in BatchInputs : NewTasksBeginFails(c, ts)
    \/ \E c \in Callers, ts \in BatchInputs : NewTasksBegin(c, ts)
    \/ \E c \in Callers, now \in Clock : NewTasksSendBatch(c, now)
    \/ \E c \in Callers, now \in Clock, k \in 1..MaxBatch :
          NewTasksSendBatchFails(c, now, k)
    \/ \E c \in Callers : NewTasksCommit(c)
    \/ \E c \in Callers : NewTasksCommitFails(c)

SpecBatch == Init /\ [][NextBatch]_vars

SpecConcurrent == Init /\ [][NextConcurrent]_vars

\* the single-statement callers on the store db_init/init.sql seeds
InitFixture == InitSeed /\ New

SpecSeed == InitFixture /\ [][Next]_vars

----------------------------------------------------------------------------
(* Properties *)

RowSet(heap) == {heap[i] : i \in 1..Len(heap)}
HasRow(heap, id) == \E r \in RowSet(heap) : r.id = id
RowOf(heap, id) == CHOOSE r \in RowSet(heap) : r.id = id
Range(q) == {q[i] : i \in 1..Len(q)}

\* the rows a batch adds, as the INSERT of the source words them
BatchAdds(ts, rows) ==
    /\ Len(rows) = Len(ts)
    /\ \A i \in 1..Len(ts) :
          /\ rows[i].title = ts[i].Title
          /\ rows[i].content = ts[i].Content

\* C1: NewTasks is all-or-nothing.  No step of a NewTasks call other than its
\* successful Commit changes the tasks table: not Begin, not the batch, and not
\* the return of an error after a failed INSERT or a failed Commit; and the
\* successful Commit adds the rows of the whole batch, never a part of it.
C1_AllOrNothing ==
    [][ /\ (\/ last'.op \in {"Begin", "SendBatch"}
            \/ (last'.op = "NewTasks" /\ last'.err # Nil))
           => tasks' = tasks
        /\ (last'.op = "NewTasks" /\ last'.err = Nil)
           => /\ SubSeq(tasks', 1, Len(tasks)) = tasks
              /\ BatchAdds(last'.args[1],
                           SubSeq(tasks', Len(tasks) + 1, Len(tasks'))) ]_vars

\* a batch of two failed after both sequence values were drawn (at its second
\* INSERT or at Commit), and none of its rows is in the table
C1_Witness ==
    /\ last.op = "NewTasks"
    /\ last.err = ErrStore
    /\ Len(last.args[1]) = 2
    /\ tasks_id_seq = 8
    /\ ~HasRow(tasks, 6) /\ ~HasRow(tasks, 7)

\* C2: NewTasks returns ErrNoTasksToAdd exactly when the slice is empty, and
\* then neither the tasks table nor any transaction changes; a NewTasks that
\* returns nil has made Tasks(0, 0) longer by exactly len(ts).
C2_EmptyAndCount ==
    [][ last'.op = "NewTasks" =>
          LET ts == last'.args[1]
          IN  /\ (last'.err = ErrNoTasksToAdd) <=> (Len(ts) = 0)
              /\ Len(ts) = 0 => (tasks' = tasks /\ tx' = tx)
              /\ (Len(ts) # 0 /\ last'.err = Nil)
                 => Len(ScanRows(TasksFrom(tasks', 0, 0)))
                      = Len(ScanRows(TasksFrom(tasks, 0, 0))) + Len(ts) ]_vars

C2_Witness ==
    /\ last.op = "NewTasks"
    /\ last.err = Nil
    /\ Len(last.args[1]) = 2
    /\ HasRow(tasks, 6) /\ HasRow(tasks, 7)

C2_WitnessEmpty ==
    /\ last.op = "NewTasks"
    /\ last.err = ErrNoTasksToAdd

\* C3: TaskByID of an identifier some task has returns no error and the Task
\* that TasksAll lists under that identifier, field for field.
C3_TaskByIDMatchesTasksAll ==
    (last.op = "TaskByID" /\ HasRow(tasks, last.args[1]))
    => /\ last.err = Nil
       /\ \E t \in Range(ScanRows(TasksAllQuery)) :
             /\ t.ID = last.args[1]
             /\ last.ret.ID = t.ID
             /\ last.ret.Opened = t.Opened
             /\ last.ret.Closed = t.Closed
             /\ last.ret.AuthorID = t.AuthorID
             /\ last.ret.AssignedID = t.AssignedID
             /\ last.ret.Title = t.Title
             /\ last.ret.Content = t.Content

\* the task looked up was updated before and is not the first row of the heap
C3_Witness ==
    /\ last.op = "TaskByID"
    /\ last.err = Nil
    /\ last.ret.Closed = 300
    /\ last.ret.Title = "New Title"
    /\ tasks[1].id # last.args[1]

\* C4: TaskByID of an identifier no task has returns ErrTaskNotFound; no
\* TaskByID returns the zero Task without an error; the store is unchanged.
C4_NotFound ==
    [][ last'.op = "TaskByID" =>
          /\ ~HasRow(tasks, last'.args[1]) => last'.err = ErrTaskNotFound
          /\ ~(last'.err = Nil /\ last'.ret = ZeroTask)
          /\ Store' = Store ]_vars

\* a miss on an identifier whose row was deleted
C4_Witness ==
    /\ last.op = "TaskByID"
    /\ last.args = <<5>>
    /\ last.err = ErrTaskNotFound
    /\ ~HasRow(tasks, 5)

\* C5: UpdateTask on an existing task keeps every column whose parameter is
\* zero or empty: assigned_id for assignedID = 0, closed for closed = 0, title
\* for title = "", content for content = "".  With all four zero/empty the row
\* is unchanged, and with only assignedID set no column but assigned_id changes.
C5_ZeroKeeps ==
    [][ (last'.op = "UpdateTask" /\ HasRow(tasks, last'.args[1])) =>
          LET id == last'.args[1]
              old == RowOf(tasks, id)
              new == RowOf(tasks', id)
          IN  /\ HasRow(tasks', id)
              /\ last'.args[2] = 0 => new.assigned_id = old.assigned_id
              /\ last'.args[3] = 0 => new.closed = old.closed
              /\ last'.args[4] = "" => new.title = old.title
              /\ last'.args[5] = "" => new.content = old.content
              /\ new.id = old.id
              /\ (last'.args[3] = 0 /\ last'.args[4] = "" /\ last'.args[5] = "")
                 => new = [old EXCEPT !.assigned_id = new.assigned_id] ]_vars

\* only assigned_id was passed, and only assigned_id differs from the seed row
C5_Witness ==
    /\ last.op = "UpdateTask"
    /\ last.args = <<5, 2, 0, "", "">>
    /\ last.err = Nil
    /\ HasRow(tasks, 5)
    /\ RowOf(tasks, 5) = [SeedTasks[5] EXCEPT !.assigned_id = 2]

\* C6 (as claimed): after a successful UpdateTask on an existing task every
\* non-zero / non-empty parameter is the value of its column, negative
\* numbers included.
C6_NonZeroOverwrites ==
    (last.op = "UpdateTask" /\ last.err = Nil /\ HasRow(tasks, last.args[1]))
    => LET row == RowOf(tasks, last.args[1])
       IN  /\ last.args[2] # 0 => row.assigned_id = last.args[2]
           /\ last.args[3] # 0 => row.closed = last.args[3]
           /\ last.args[4] # "" => row.title = last.args[4]
           /\ last.args[5] # "" => row.content = last.args[5]

\* C7 (as claimed): DeleteTask of an identifier some task has, labelled or
\* not, returns no error, removes that row and no other.
C7_DeleteRemoves ==
    [][ (last'.op = "DeleteTask" /\ HasRow(tasks, last'.args[1])) =>
          /\ last'.err = Nil
          /\ ~HasRow(tasks', last'.args[1])
          /\ Len(ScanRows(TasksFrom(tasks', 0, 0)))
               = Len(ScanRows(TasksFrom(tasks, 0, 0))) - 1
          /\ RowSet(tasks') = RowSet(tasks) \ {RowOf(tasks, last'.args[1])} ]_vars

\* C8: DeleteTask of an identifier no task has returns no error and leaves
\* the tasks table as it was.
C8_DeleteAbsent ==
    [][ (last'.op = "DeleteTask" /\ ~HasRow(tasks, last'.args[1])) =>
          /\ last'.err = Nil
          /\ tasks' = tasks ]_vars

\* DeleteTask(6) before the sequence ever handed out 6
C8_Witness ==
    /\ last.op = "DeleteTask"
    /\ last.args = <<6>>
    /\ last.err = Nil
    /\ tasks_id_seq = 6

\* C9: Tasks(taskID, authorID) returns no error and exactly the tasks that
\* pass both filters (0 = no filter), each once, by ascending ID.
C9_Expected(taskID, authorID) ==
    {Scan(r) : r \in {x \in RowSet(tasks) :
                        /\ (taskID = 0 \/ x.id = taskID)
                        /\ (authorID = 0 \/ x.author_id = authorID)}}

C9_TasksFiltered ==
    last.op = "Tasks" =>
        /\ last.err = Nil
        /\ Range(last.ret) = C9_Expected(last.args[1], last.args[2])
        /\ \A i, j \in 1..Len(last.ret) : i < j => last.ret[i].ID < last.ret[j].ID
        /\ (last.args = <<0, 0>>) => Len(last.ret) = Len(tasks)

\* every task asked for while the heap is not in id order
C9_Witness ==
    /\ last.op = "Tasks"
    /\ last.args = <<0, 0>>
    /\ Len(last.ret) >= 2
    /\ tasks[1].id > tasks[2].id

\* a filter that matches no row
C9_WitnessEmpty ==
    /\ last.op = "Tasks"
    /\ last.args[2] # 0
    /\ last.ret = <<>>
    /\ last.err = Nil

\* C10: TasksByLabel returns ErrEmptyLabel exactly for the empty label; for
\* any other label it returns no error, and no tasks both when no label has
\* that name and when the label is on no task.
C10_LabelNamed(label) == \E j \in 1..Len(labels) : labels[j].name = label

C10_LabelOnTask(label) ==
    \E j \in 1..Len(labels), i \in 1..Len(tasks_labels) :
        /\ labels[j].name = label
        /\ tasks_labels[i].label_id = labels[j].id
        /\ HasRow(tasks, tasks_labels[i].task_id)

C10_ByLabel ==
    last.op = "TasksByLabel" =>
        LET label == last.args[1]
        IN  /\ (last.err = ErrEmptyLabel) <=> (label = "")
            /\ label = "" => last.ret = <<>>
            /\ label # "" => last.err = Nil
            /\ (label # "" /\ ~C10_LabelOnTask(label)) => last.ret = <<>>

\* a label of the store that is on no task
C10_Witness ==
    /\ last.op = "TasksByLabel"
    /\ last.args = <<"Feature">>
    /\ C10_LabelNamed("Feature")
    /\ ~C10_LabelOnTask("Feature")
    /\ last.ret = <<>>
    /\ last.err = Nil

\* a label the store does not have
C10_WitnessNoLabel ==
    /\ last.op = "TasksByLabel"
    /\ ~C10_LabelNamed(last.args[1])
    /\ last.args[1] # ""
    /\ last.ret = <<>>

\* the store is as init.sql left it
C11_Seeded ==
    /\ users = SeedUsers
    /\ labels = SeedLabels
    /\ tasks = SeedTasks
    /\ tasks_labels = SeedTasksLabels

\* C11 (as claimed): on the seeded store TasksByAuthorID(4) returns the tasks
\* of author 4 and there are 2 of them, TasksByLabel("Bug") returns 1 task,
\* TasksByLabel("Feature") 2 tasks and TasksByLabel("chore") none, without error.
C11_FixtureCounts ==
    C11_Seeded =>
        /\ (last.op = "TasksByAuthorID" /\ last.args = <<4>>)
           => /\ last.err = Nil
              /\ \A i \in 1..Len(last.ret) : last.ret[i].AuthorID = 4
              /\ Len(last.ret) = 2
        /\ (last.op = "TasksByLabel" /\ last.args = <<"Bug">>)
           => (last.err = Nil /\ Len(last.ret) = 1)
        /\ (last.op = "TasksByLabel" /\ last.args = <<"Feature">>)
           => (last.err = Nil /\ Len(last.ret) = 2)
        /\ (last.op = "TasksByLabel" /\ last.args = <<"chore">>)
           => (last.err = Nil /\ last.ret = <<>>)

\* what the seeded store does return: one task of author 4 (task 3), and the
\* label counts of the claim
C11_FixtureAsSeeded ==
    C11_Seeded =>
        /\ (last.op = "TasksByAuthorID" /\ last.args = <<4>>)
           => /\ last.err = Nil
              /\ Len(last.ret) = 1
              /\ last.ret[1].ID = 3 /\ last.ret[1].AuthorID = 4
        /\ (last.op = "TasksByLabel" /\ last.args = <<"Bug">>)
           => (last.err = Nil /\ Len(last.ret) = 1)
        /\ (last.op = "TasksByLabel" /\ last.args = <<"Feature">>)
           => (last.err = Nil /\ Len(last.ret) = 2)
        /\ (last.op = "TasksByLabel" /\ last.args = <<"chore">>)
           => (last.err = Nil /\ last.ret = <<>>)

\* C12: NewTask(t) appends exactly one row to tasks, holding t.Title and
\* t.Content with author_id, assigned_id and closed 0 whatever the other fields
\* of t are; the identifier returned is that row's, taken from the sequence and
\* held by no task before the call; a TaskByID on that identifier as the very
\* next call succeeds and returns the title and content.
C12_NewTaskStep ==
    /\ last'.op = "NewTask" =>
        LET t == last'.args[1]
        IN  /\ last'.err = Nil
            /\ Len(tasks') = Len(tasks) + 1
            /\ SubSeq(tasks', 1, Len(tasks)) = tasks
            /\ tasks_labels' = tasks_labels
            /\ LET row == tasks'[Len(tasks')]
               IN  /\ row.id = last'.ret
                   /\ row.id = tasks_id_seq
                   /\ ~HasRow(tasks, row.id)
                   /\ row.title = t.Title /\ row.content = t.Content
                   /\ row.author_id = 0 /\ row.assigned_id = 0
                   /\ row.closed = 0
    /\ (last.op = "NewTask" /\ last.err = Nil
        /\ last'.op = "TaskByID" /\ last'.args = <<last.ret>>) =>
        /\ last'.err = Nil
        /\ last'.ret.ID = last.ret
        /\ last'.ret.Title = last.args[1].Title
        /\ last'.ret.Content = last.args[1].Content
        /\ last'.ret.AuthorID = 0 /\ last'.ret.AssignedID = 0
        /\ last'.ret.Closed = 0

C12_NewTask == [][C12_NewTaskStep]_vars

\* a Task with every field set was inserted and its row holds the defaults
C12_Witness ==
    /\ last.op = "NewTask" /\ last.err = Nil
    /\ last.args[1].AuthorID = 2 /\ last.args[1].AssignedID = 1
    /\ last.args[1].Closed = 8 /\ last.args[1].ID = 4
    /\ HasRow(tasks, last.ret)
    /\ RowOf(tasks, last.ret).author_id = 0
    /\ RowOf(tasks, last.ret).title = "New Test Task"

\* the TaskByID that follows a NewTask found the new task
C12_WitnessRead ==
    /\ last.op = "TaskByID" /\ last.err = Nil
    /\ last.args = <<6>>
    /\ last.ret.Title = "New Test Task" /\ last.ret.Content = "Some content"

\* every author_id and assigned_id in the heap is the id of a user (0 is the
\* user 'default' of init.sql:37)
C13_References(heap) ==
    \A i \in 1..Len(heap) :
        /\ heap[i].author_id \in users
        /\ heap[i].assigned_id \in users

\* C13 (as claimed): from the seeded store on, every task's author_id and
\* assigned_id is the id of an existing user, and an UpdateTask of a stored
\* task whose assignedID is no user's id returns an error and leaves the row
\* as it was.
C13_UnknownAssigneeStep ==
    /\ C13_References(tasks) /\ C13_References(tasks')
    /\ (/\ last'.op = "UpdateTask"
        /\ HasRow(tasks, last'.args[1])
        /\ last'.args[2] \notin users) =>
        /\ last'.err # Nil
        /\ HasRow(tasks', last'.args[1])
        /\ RowOf(tasks', last'.args[1]) = RowOf(tasks, last'.args[1])

C13_UnknownAssignee == [][C13_UnknownAssigneeStep]_vars

\* the part that holds in every state: the references
C13_ReferencesHold == C13_References(tasks)

\* the part that holds of UpdateTask: an assignedID above 0 that is no user's
\* id is refused and the heap is left alone
C13_PositiveUnknownStep ==
    (/\ last'.op = "UpdateTask"
     /\ HasRow(tasks, last'.args[1])
     /\ last'.args[2] > 0
     /\ last'.args[2] \notin users) =>
        /\ last'.err = ErrForeignKey
        /\ tasks' = tasks

C13_PositiveUnknown == [][C13_PositiveUnknownStep]_vars

\* C14: UpdateTask(id, ...) changes at most the row with identifier id: every
\* other row of tasks is kept as it was, the target keeps its id, opened and
\* author_id, tasks holds the same identifiers before and after, and
\* tasks_labels, users, labels and the sequence are untouched; when no task
\* has that id the call returns nil and leaves the whole store as it was.
C14_UpdateStep ==
    last'.op = "UpdateTask" =>
        LET id == last'.args[1]
            old == RowSet(tasks)
            new == RowSet(tasks')
            was == {r \in old : r.id = id}
            now == {r \in new : r.id = id}
        IN  /\ old \ was = new \ now
            /\ Len(tasks') = Len(tasks)
            /\ {r.id : r \in new} = {r.id : r \in old}
            /\ UNCHANGED <<users, labels, tasks_labels, tasks_id_seq>>
            /\ \A r \in was : \A u \in now :
                /\ u.opened = r.opened
                /\ u.author_id = r.author_id
            /\ was = {} =>
                /\ last'.err = Nil
                /\ UNCHANGED Store

C14_UpdateOnlyTarget == [][C14_UpdateStep]_vars

\* an UpdateTask with values to write named a task that had been deleted
C14_WitnessAbsent ==
    /\ last.op = "UpdateTask" /\ last.err = Nil
    /\ ~HasRow(tasks, last.args[1])
    /\ last.args[2] = 2 /\ last.args[3] = 300
    /\ last.args[4] = "New Title" /\ last.args[5] = "New Text"
    /\ Len(tasks) > 0

\* an UpdateTask rewrote its target among other rows
C14_Witness ==
    /\ last.op = "UpdateTask" /\ last.err = Nil
    /\ HasRow(tasks, last.args[1])
    /\ RowOf(tasks, last.args[1]).title = "New Title"
    /\ RowOf(tasks, last.args[1]).assigned_id = 2
    /\ RowOf(tasks, last.args[1]).closed = 300
    /\ Len(tasks) > 1

\* the identifiers of the rows of a heap
C15_Ids(heap) == {r.id : r \in RowSet(heap)}

\* the identifiers of the rows inserted by transactions not yet ended
C15_Pending(t) ==
    UNION {{t[c].rows[i].id : i \in 1..Len(t[c].rows)} : c \in Callers}

C15_Readers == {"Tasks", "TasksAll", "TaskByID", "TasksByAuthorID"}

\* the identifiers of the tasks a read returned
C15_Seen(l) ==
    IF l.op = "TaskByID"
    THEN IF l.err = Nil THEN {l.ret.ID} ELSE {}
    ELSE {l.ret[i].ID : i \in 1..Len(l.ret)}

\* the identifiers of the rows of a heap that the arguments of a read select
C15_Selected(l, heap) ==
    {r.id : r \in {x \in RowSet(heap) :
        CASE l.op = "Tasks" -> TasksWhere(x, l.args[1], l.args[2])
          [] l.op = "TasksAll" -> TRUE
          [] l.op = "TaskByID" -> x.id = l.args[1]
          [] l.op = "TasksByAuthorID" -> x.author_id = l.args[1]}}

\* a read without a filter returned, with the i-th task of a batch, the
\* (i-1)-th as well: the batch rows carry the next identifiers in turn
C15_Closed(l) ==
    \A j \in 1..Len(l.ret) : \A i \in 2..MaxBatch :
        (l.ret[j].Title = BatchTask(i).Title
         /\ l.ret[j].Content = BatchTask(i).Content)
        => \E k \in 1..Len(l.ret) :
              /\ l.ret[k].ID = l.ret[j].ID - 1
              /\ l.ret[k].Title = BatchTask(i - 1).Title
              /\ l.ret[k].Content = BatchTask(i - 1).Content

\* C15: with NewTasks calls, NewTask calls and readers interleaved, a read
\* returns no row of a batch whose NewTasks has not returned nil (still open,
\* or failed) and every selected row of each batch that has: the rows visible
\* to readers gain a batch's rows all at once, when its NewTasks returns nil,
\* never lose a row, and a read returns all of them its arguments select.
C15_IsolationStep ==
    /\ last'.op \in C15_Readers =>
        /\ C15_Seen(last') = C15_Selected(last', tasks')
        /\ C15_Seen(last') \cap C15_Pending(tx') = {}
    /\ (\/ last'.op = "TasksAll"
        \/ (last'.op = "Tasks" /\ last'.args = <<0, 0>>)) => C15_Closed(last')
    /\ C15_Ids(tasks) \subseteq C15_Ids(tasks')
    /\ C15_Pending(tx') \cap C15_Ids(tasks') = {}
    /\ (last'.op = "NewTasks" /\ last'.err # Nil) =>
        C15_Ids(tasks') = C15_Ids(tasks)
    /\ (last'.op = "NewTasks" /\ last'.err = Nil) =>
        LET batch == C15_Pending(tx) \ C15_Pending(tx')
        IN  /\ Cardinality(batch) = Len(last'.args[1])
            /\ batch \cap C15_Ids(tasks) = {}
            /\ C15_Ids(tasks') = C15_Ids(tasks) \cup batch
    /\ last'.op \in {"Begin", "SendBatch"} => C15_Ids(tasks') = C15_Ids(tasks)

C15_WitnessAll ==
    /\ last.op = "Tasks" /\ last.args = <<0, 0>>
    /\ \E j, k \in 1..Len(last.ret) :
        /\ last.ret[j].ID = 6 /\ last.ret[j].Title = BatchTask(1).Title
        /\ last.ret[j].Content = BatchTask(1).Content
        /\ last.ret[k].ID = 7 /\ last.ret[k].Title = BatchTask(2).Title

====
